---- MODULE Spec2Model ----
(***************************************************************************)
(* Model of the ava-repl command shell: the REPL evaluation hook           *)
(* (AvaShell.evalHandler), the dispatcher (CommandHandler.handleCommand),  *)
(* the command registry built by the CommandHandler constructor, and the   *)
(* connection collaborator (App.connectAvaNode).                           *)
(*                                                                         *)
(* An input line is modelled by its token sequence: the line after         *)
(* cmd.trim() and StringUtility.splitTokens.  A comparison of the whole    *)
(* line with a single word (cmd == "exit", handlerMap[cmd]) is a           *)
(* comparison of a one-token line with that word.                          *)
(***************************************************************************)
EXTENDS Integers, Sequences, FiniteSets, TLC

\* ---------------------------------------------------------------- bounds
\* Largest number of argument tokens following the first two tokens of a line.
MaxArgs == 3

\* Largest number of addCommandSpec calls when registration is explored on
\* its own.
MaxRegistrations == 3

\* Largest number of tokens of a partial line handed to the completer.
MaxPartial == 3

\* The most transactions submitted in a run.
MaxTxs == 3

\* ------------------------------------------------------------ JS values
\* null / undefined (both falsy; the code only tests them by truthiness).
Null == "null"
Undefined == "undefined"

\* JavaScript truthiness of a string-or-null value.
Truthy(v) == v \notin {Null, Undefined, ""}

\* The characters of every name the model uses (TLA+ strings are atomic).
Chars ==
    "_" :> << "_" >>
    @@ " " :> << " " >>
    @@ "> " :> << ">", " " >>
    @@ "ava" :> << "a", "v", "a" >>
    @@ "ava> " :> << "a", "v", "a", ">", " " >>
    @@ "_getActiveUser" :> << "_", "g", "e", "t", "A", "c", "t", "i", "v", "e", "U", "s", "e", "r" >>
    @@ "a" :> << "a" >>
    @@ "addSubnetValidator" :> << "a", "d", "d", "S", "u", "b", "n", "e", "t", "V", "a", "l", "i", "d", "a", "t", "o", "r" >>
    @@ "addValidator" :> << "a", "d", "d", "V", "a", "l", "i", "d", "a", "t", "o", "r" >>
    @@ "avm" :> << "a", "v", "m" >>
    @@ "b" :> << "b" >>
    @@ "bogus" :> << "b", "o", "g", "u", "s" >>
    @@ "connect" :> << "c", "o", "n", "n", "e", "c", "t" >>
    @@ "constructor" :> << "c", "o", "n", "s", "t", "r", "u", "c", "t", "o", "r" >>
    @@ "createAddress" :> << "c", "r", "e", "a", "t", "e", "A", "d", "d", "r", "e", "s", "s" >>
    @@ "createFixedCapAsset" :> << "c", "r", "e", "a", "t", "e", "F", "i", "x", "e", "d", "C", "a", "p", "A", "s", "s", "e", "t" >>
    @@ "createSubnet" :> << "c", "r", "e", "a", "t", "e", "S", "u", "b", "n", "e", "t" >>
    @@ "createUser" :> << "c", "r", "e", "a", "t", "e", "U", "s", "e", "r" >>
    @@ "createVariableCapAsset" :> << "c", "r", "e", "a", "t", "e", "V", "a", "r", "i", "a", "b", "l", "e", "C", "a", "p", "A", "s", "s", "e", "t" >>
    @@ "deleteUser" :> << "d", "e", "l", "e", "t", "e", "U", "s", "e", "r" >>
    @@ "exit" :> << "e", "x", "i", "t" >>
    @@ "exportAVAX" :> << "e", "x", "p", "o", "r", "t", "A", "V", "A", "X" >>
    @@ "exportUser" :> << "e", "x", "p", "o", "r", "t", "U", "s", "e", "r" >>
    @@ "getAllBalances" :> << "g", "e", "t", "A", "l", "l", "B", "a", "l", "a", "n", "c", "e", "s" >>
    @@ "getAssetDescription" :> << "g", "e", "t", "A", "s", "s", "e", "t", "D", "e", "s", "c", "r", "i", "p", "t", "i", "o", "n" >>
    @@ "getBalance" :> << "g", "e", "t", "B", "a", "l", "a", "n", "c", "e" >>
    @@ "getCurrentValidators" :> << "g", "e", "t", "C", "u", "r", "r", "e", "n", "t", "V", "a", "l", "i", "d", "a", "t", "o", "r", "s" >>
    @@ "getLiveness" :> << "g", "e", "t", "L", "i", "v", "e", "n", "e", "s", "s" >>
    @@ "getPendingValidators" :> << "g", "e", "t", "P", "e", "n", "d", "i", "n", "g", "V", "a", "l", "i", "d", "a", "t", "o", "r", "s" >>
    @@ "getSubnets" :> << "g", "e", "t", "S", "u", "b", "n", "e", "t", "s" >>
    @@ "getTxStatus" :> << "g", "e", "t", "T", "x", "S", "t", "a", "t", "u", "s" >>
    @@ "hasOwnProperty" :> << "h", "a", "s", "O", "w", "n", "P", "r", "o", "p", "e", "r", "t", "y" >>
    @@ "health" :> << "h", "e", "a", "l", "t", "h" >>
    @@ "help" :> << "h", "e", "l", "p" >>
    @@ "importAVAX" :> << "i", "m", "p", "o", "r", "t", "A", "V", "A", "X" >>
    @@ "importUser" :> << "i", "m", "p", "o", "r", "t", "U", "s", "e", "r" >>
    @@ "info" :> << "i", "n", "f", "o" >>
    @@ "isCurrentValidator" :> << "i", "s", "C", "u", "r", "r", "e", "n", "t", "V", "a", "l", "i", "d", "a", "t", "o", "r" >>
    @@ "isPrototypeOf" :> << "i", "s", "P", "r", "o", "t", "o", "t", "y", "p", "e", "O", "f" >>
    @@ "issueTx" :> << "i", "s", "s", "u", "e", "T", "x" >>
    @@ "keystore" :> << "k", "e", "y", "s", "t", "o", "r", "e" >>
    @@ "listAddresses" :> << "l", "i", "s", "t", "A", "d", "d", "r", "e", "s", "s", "e", "s" >>
    @@ "listBalances" :> << "l", "i", "s", "t", "B", "a", "l", "a", "n", "c", "e", "s" >>
    @@ "listTxs" :> << "l", "i", "s", "t", "T", "x", "s" >>
    @@ "listUsers" :> << "l", "i", "s", "t", "U", "s", "e", "r", "s" >>
    @@ "login" :> << "l", "o", "g", "i", "n" >>
    @@ "mint" :> << "m", "i", "n", "t" >>
    @@ "networkId" :> << "n", "e", "t", "w", "o", "r", "k", "I", "d" >>
    @@ "networkName" :> << "n", "e", "t", "w", "o", "r", "k", "N", "a", "m", "e" >>
    @@ "nodeId" :> << "n", "o", "d", "e", "I", "d" >>
    @@ "nodeVersion" :> << "n", "o", "d", "e", "V", "e", "r", "s", "i", "o", "n" >>
    @@ "peers" :> << "p", "e", "e", "r", "s" >>
    @@ "platform" :> << "p", "l", "a", "t", "f", "o", "r", "m" >>
    @@ "propertyIsEnumerable" :> << "p", "r", "o", "p", "e", "r", "t", "y", "I", "s", "E", "n", "u", "m", "e", "r", "a", "b", "l", "e" >>
    @@ "send" :> << "s", "e", "n", "d" >>
    @@ "setUser" :> << "s", "e", "t", "U", "s", "e", "r" >>
    @@ "toLocaleString" :> << "t", "o", "L", "o", "c", "a", "l", "e", "S", "t", "r", "i", "n", "g" >>
    @@ "toString" :> << "t", "o", "S", "t", "r", "i", "n", "g" >>
    @@ "txFee" :> << "t", "x", "F", "e", "e" >>
    @@ "valueOf" :> << "v", "a", "l", "u", "e", "O", "f" >>
    @@ "pl" :> << "p", "l" >>
    @@ "Pl" :> << "P", "l" >>
    @@ "he" :> << "h", "e" >>
    @@ "e" :> << "e" >>
    @@ "get" :> << "g", "e", "t" >>

\* The UTF-16 code unit of every character of those names.
CharCode ==
    "A" :> 65 @@ "B" :> 66 @@ "C" :> 67 @@ "D" :> 68 @@ "E" :> 69 @@ "F"
    :> 70 @@ "I" :> 73 @@ "L" :> 76 @@ "N" :> 78 @@ "O" :> 79 @@ "P" :> 80
    @@ "S" :> 83 @@ "T" :> 84 @@ "U" :> 85 @@ "V" :> 86 @@ "X" :> 88 @@
    "_" :> 95 @@ "a" :> 97 @@ "b" :> 98 @@ "c" :> 99 @@ "d" :> 100 @@ "e"
    :> 101 @@ "f" :> 102 @@ "g" :> 103 @@ "h" :> 104 @@ "i" :> 105 @@ "k"
    :> 107 @@ "l" :> 108 @@ "m" :> 109 @@ "n" :> 110 @@ "o" :> 111 @@ "p"
    :> 112 @@ "r" :> 114 @@ "s" :> 115 @@ "t" :> 116 @@ "u" :> 117 @@ "v"
    :> 118 @@ "w" :> 119 @@ "x" :> 120 @@ "y" :> 121

\* The default comparison of Array.prototype.sort: a < b as strings, by code
\* units.
RECURSIVE SeqLess(_, _)
SeqLess(a, b) ==
    IF b = << >> THEN FALSE
    ELSE IF a = << >> THEN TRUE
    ELSE IF CharCode[Head(a)] # CharCode[Head(b)]
    THEN CharCode[Head(a)] < CharCode[Head(b)]
    ELSE SeqLess(Tail(a), Tail(b))

StringLess(a, b) == SeqLess(Chars[a], Chars[b])

\* Array.prototype.sort() without comparator, on a sequence of names.
RECURSIVE InsertSorted(_, _)
InsertSorted(x, sorted) ==
    IF sorted = << >> THEN << x >>
    ELSE IF StringLess(x, Head(sorted)) THEN << x >> \o sorted
    ELSE << Head(sorted) >> \o InsertSorted(x, Tail(sorted))

RECURSIVE Sort(_)
Sort(names) ==
    IF names = << >> THEN << >>
    ELSE InsertSorted(Head(names), Sort(Tail(names)))

\* String.prototype.startsWith
StartsWith(s, prefix) ==
    /\ Len(Chars[prefix]) <= Len(Chars[s])
    /\ SubSeq(Chars[s], 1, Len(Chars[prefix])) = Chars[prefix]

\* ------------------------------------------------- FieldSpec, CommandSpec
FieldSpec(name, defaultValue) == [name |-> name, defaultValue |-> defaultValue]

\* The loop of the CommandSpec constructor: counts the fields whose default
\* value is falsy.
RECURSIVE CountRequiredFields(_)
CountRequiredFields(fields) ==
    IF fields = << >> THEN 0
    ELSE (IF ~Truthy(Head(fields).defaultValue) THEN 1 ELSE 0)
         + CountRequiredFields(Tail(fields))

CommandSpec(fields, description) ==
    [fields |-> fields, description |-> description,
     countRequiredFields |-> CountRequiredFields(fields),
     name |-> Undefined, context |-> Undefined]

\* CommandSpec.validateInput(...params)
ValidateInputLoose(spec, params) ==
    IF Len(params) < spec.countRequiredFields - 1 THEN FALSE ELSE TRUE

ValidateInput(spec, params) ==
    IF Len(params) < spec.countRequiredFields THEN FALSE ELSE TRUE

\* FieldSpec.toHelpString, as the pieces of the template string.
toHelpStringRequired(field) == << "<", field.name, ">" >>

toHelpString(field) ==
    IF ~Truthy(field.defaultValue)
    THEN << "<", field.name, ">" >>
    ELSE << "[", field.name, "=", field.defaultValue, "]" >>

\* fieldStrs.join(" ")
RECURSIVE Join(_)
Join(strs) ==
    IF strs = << >> THEN << >>
    ELSE IF Len(strs) = 1 THEN Head(strs)
    ELSE Head(strs) \o << " " >> \o Join(Tail(strs))

\* CommandSpec.printUsage(prefix): the three lines written to the console,
\* each as the pieces it is concatenated from.
printUsage(spec, prefix) ==
    LET fieldStrs == [i \in 1..Len(spec.fields) |-> toHelpString(spec.fields[i])]
        out == << spec.name >>
               \o (IF Len(fieldStrs) # 0 THEN << " " >> \o Join(fieldStrs) ELSE << >>)
    IN  << << prefix >> \o out,
           << prefix, "- ", spec.description >>,
           << >> >>

\* CommandSpec.id: `${context}_${name}`, as a sequence of characters.
CommandIdNameOnly(context, name) == Chars[name]

CommandId(context, name) == Chars[context] \o << "_" >> \o Chars[name]

\* ------------------------------------------------------- handler classes
\* The members of each handler class, in declaration order.
InfoCommandHandler ==
    << "nodeId",
       "txFee",
       "networkId",
       "networkName",
       "nodeVersion",
       "peers" >>

HealthCommandHandler ==
    << "getLiveness" >>

KeystoreCommandHandler ==
    << "listUsers",
       "createUser",
       "deleteUser",
       "exportUser",
       "importUser",
       "login",
       "setUser" >>

PlatformCommandHandler ==
    << "_getActiveUser",
       "createAddress",
       "listAddresses",
       "listBalances",
       "getBalance",
       "createSubnet",
       "getSubnets",
       "getTxStatus",
       "importAVAX",
       "exportAVAX",
       "issueTx",
       "addValidator",
       "addSubnetValidator",
       "getPendingValidators",
       "getCurrentValidators",
       "isCurrentValidator" >>

AvmCommandHandler ==
    << "_getActiveUser",
       "getAssetDescription",
       "createFixedCapAsset",
       "createVariableCapAsset",
       "mint",
       "importAVAX",
       "exportAVAX",
       "listAddresses",
       "listBalances",
       "createAddress",
       "getBalance",
       "getAllBalances",
       "send",
       "getTxStatus",
       "listTxs" >>

\* The @command metadata of each handler class: method name -> fields.
InfoCommands ==
    "nodeId" :> << >>
    @@ "txFee" :> << >>
    @@ "networkId" :> << >>
    @@ "networkName" :> << >>
    @@ "nodeVersion" :> << >>
    @@ "peers" :> << >>

HealthCommands ==
    "getLiveness" :> << >>

KeystoreCommands ==
    "listUsers" :> << >>
    @@ "createUser" :> << FieldSpec("username", Null), FieldSpec("password", Null) >>
    @@ "deleteUser" :> << FieldSpec("username", Null), FieldSpec("password", Null) >>
    @@ "exportUser" :> << FieldSpec("username", Null), FieldSpec("password", Null) >>
    @@ "importUser" :> << FieldSpec("username", Null), FieldSpec("password", Null), FieldSpec("encryptedBlob", Null) >>
    @@ "login" :> << FieldSpec("username", Null), FieldSpec("password", Null) >>
    @@ "setUser" :> << FieldSpec("username", Null) >>

PlatformCommands ==
    "createAddress" :> << >>
    @@ "listAddresses" :> << >>
    @@ "listBalances" :> << >>
    @@ "getBalance" :> << FieldSpec("address", Null) >>
    @@ "createSubnet" :> << FieldSpec("threshold", Null), FieldSpec("controlKeys...", Null) >>
    @@ "getSubnets" :> << FieldSpec("subnetIds...", Null) >>
    @@ "getTxStatus" :> << FieldSpec("txId", Null) >>
    @@ "importAVAX" :> << FieldSpec("dest", Null), FieldSpec("sourceChain", "X") >>
    @@ "exportAVAX" :> << FieldSpec("amount", Null), FieldSpec("x-dest", Null) >>
    @@ "issueTx" :> << FieldSpec("tx", Null) >>
    @@ "addValidator" :> << FieldSpec("destination", Null), FieldSpec("stakeAmount", Null), FieldSpec("endTimeDays", Null) >>
    @@ "addSubnetValidator" :> << FieldSpec("subnetId", Null), FieldSpec("weight", Null), FieldSpec("endTimeDays", Null) >>
    @@ "getPendingValidators" :> << FieldSpec("subnetId", "default") >>
    @@ "getCurrentValidators" :> << FieldSpec("subnetId", "default") >>
    @@ "isCurrentValidator" :> << FieldSpec("subnetId", "default") >>

AvmCommands ==
    "getAssetDescription" :> << FieldSpec("assetId", Null) >>
    @@ "createFixedCapAsset" :> << FieldSpec("name", Null), FieldSpec("symbol", Null), FieldSpec("initialHolderAddress", Null), FieldSpec("initialHolderAmount", Null) >>
    @@ "createVariableCapAsset" :> << FieldSpec("name", Null), FieldSpec("symbol", Null), FieldSpec("minterAddresses", Null), FieldSpec("minterThreshold", Null) >>
    @@ "mint" :> << FieldSpec("amount", Null), FieldSpec("assetId", Null), FieldSpec("toAddress", Null), FieldSpec("minters", Null) >>
    @@ "importAVAX" :> << FieldSpec("dest", Null), FieldSpec("sourceChain", "P") >>
    @@ "exportAVAX" :> << FieldSpec("dest", Null), FieldSpec("amount", Null) >>
    @@ "listAddresses" :> << >>
    @@ "listBalances" :> << >>
    @@ "createAddress" :> << >>
    @@ "getBalance" :> << FieldSpec("address", Null), FieldSpec("asset", "AVAX") >>
    @@ "getAllBalances" :> << FieldSpec("address", Null) >>
    @@ "send" :> << FieldSpec("fromAddress", Null), FieldSpec("toAddress", Null), FieldSpec("amount", Null), FieldSpec("asset", "AVAX") >>
    @@ "getTxStatus" :> << FieldSpec("txId", Null) >>
    @@ "listTxs" :> << >>

\* The description given to each @command decorator (with ' for the
\* typographic apostrophe).
InfoDescriptions ==
    "nodeId" :> "Show current node ID"
    @@ "txFee" :> "Get transaction fee of the network"
    @@ "networkId" :> "Get the ID of the network this node is participating in."
    @@ "networkName" :> "Get the name of the network this node is participating in."
    @@ "nodeVersion" :> "Show current node version"
    @@ "peers" :> "Show the peers connected to the node"

HealthDescriptions ==
    "getLiveness" :> "Check health of node"

KeystoreDescriptions ==
    "listUsers" :> "List the names of all users on the node"
    @@ "createUser" :> "Creates a user in the node's database."
    @@ "deleteUser" :> "Delete a user"
    @@ "exportUser" :> "Export a user"
    @@ "importUser" :> "Import a user"
    @@ "login" :> "Authenticate with a username and password"
    @@ "setUser" :> "Sets the active user for future avm commands"

PlatformDescriptions ==
    "createAddress" :> "Create a new P-Chain address"
    @@ "listAddresses" :> "Show all P-Chain addresses for current user"
    @@ "listBalances" :> "List balance for all your P-Chain accounts"
    @@ "getBalance" :> "Fetch P-Chain account by address"
    @@ "createSubnet" :> "Create a new Subnet. The Subnet's ID is the same as this transaction's ID."
    @@ "getSubnets" :> "Get info about specified subnets. If no id specified, get info on all subnets"
    @@ "getTxStatus" :> "Check the status of a transaction id"
    @@ "importAVAX" :> "Finalize a transfer of AVA from the X-Chain to the P-Chain."
    @@ "exportAVAX" :> "Send AVA from an account on the P-Chain to an address on the X-Chain."
    @@ "issueTx" :> "Issue a transaction to the platform chain"
    @@ "addValidator" :> "Add current node to default subnet (sign and issue the transaction)"
    @@ "addSubnetValidator" :> "Add current node to default subnet (sign and issue the transaction)"
    @@ "getPendingValidators" :> "List pending validator set for a subnet, or the Default Subnet if no subnetId is specified"
    @@ "getCurrentValidators" :> "List current validator set for a subnet, or the Default Subnet if no subnetId is specified"
    @@ "isCurrentValidator" :> "Check if current node is a validator for a subnet, or the Default Subnet if no subnetId is specified"

AvmDescriptions ==
    "getAssetDescription" :> "Get an asset's name and symbol from asset id"
    @@ "createFixedCapAsset" :> "Create a fixed cap asset with default denomination."
    @@ "createVariableCapAsset" :> "Create a variable set asset. For a minter set, separate multiple minter addresses with comma."
    @@ "mint" :> "Mint more of a variable supply asset. This creates an unsigned transaction."
    @@ "importAVAX" :> "Import AVAX from a source chain."
    @@ "exportAVAX" :> "Send AVA from the X-Chain to an account on the P-Chain."
    @@ "listAddresses" :> "List all X-Chain addresses controlled by the current user"
    @@ "listBalances" :> "List balances of all X-Chain addresses controlled by the current user"
    @@ "createAddress" :> "Create a new X-Chain addresses controlled by the current user"
    @@ "getBalance" :> "Get the balance of an asset in an account"
    @@ "getAllBalances" :> "Get the balance of all assets in an account"
    @@ "send" :> "Sends asset from an address managed by this node's keystore to a destination address"
    @@ "getTxStatus" :> "Check the status of a transaction id"
    @@ "listTxs" :> "Show the status transactions that have been submitted in this session"

\* Members every JavaScript object inherits from Object.prototype (all are
\* functions, hence truthy, on plain objects, class instances and functions).
ObjectPrototypeMembers ==
    {"constructor", "toString", "toLocaleString", "valueOf",
     "hasOwnProperty", "isPrototypeOf", "propertyIsEnumerable"}

\* enum CommandContext
CommandContext ==
    [Info |-> "info", Keystore |-> "keystore", AVM |-> "avm",
     Platform |-> "platform", Health |-> "health"]

META_COMMANDS == << "help", "exit" >>

\* A handler object: its enumerable members in for-in order and its
\* @command metadata.  `defined` is FALSE for undefined.
HandlerObject(members, commands, descriptions) ==
    [defined |-> TRUE, members |-> members, commands |-> commands,
     descriptions |-> descriptions]

NoHandler ==
    [defined |-> FALSE, members |-> << >>, commands |-> << >>,
     descriptions |-> << >>]

\* A value found on the prototype chain of the handler map (Object.prototype
\* members): an object with no members of its own.
InheritedObject == HandlerObject(<< >>, << >>, << >>)

infoHandler ==
    HandlerObject(InfoCommandHandler, InfoCommands, InfoDescriptions)
keystoreHandler ==
    HandlerObject(KeystoreCommandHandler, KeystoreCommands, KeystoreDescriptions)
avmHandler ==
    HandlerObject(AvmCommandHandler, AvmCommands, AvmDescriptions)
platformHandler ==
    HandlerObject(PlatformCommandHandler, PlatformCommands, PlatformDescriptions)
healthHandler ==
    HandlerObject(HealthCommandHandler, HealthCommands, HealthDescriptions)

\* The own keys of handlerMap, in insertion order.
HandlerMapKeys == << "info", "keystore", "avm", "platform", "health" >>

Range(s) == {s[i] : i \in 1..Len(s)}

\* handlerMap[key]: an own entry, or a member inherited by the object literal.
handlerMap(key) ==
    CASE key = "info" -> infoHandler
      [] key = "keystore" -> keystoreHandler
      [] key = "avm" -> avmHandler
      [] key = "platform" -> platformHandler
      [] key = "health" -> healthHandler
      [] key \in ObjectPrototypeMembers -> InheritedObject
      [] OTHER -> NoHandler

\* handler[method]: truthy for a member of the class (private ones included)
\* and for the members inherited from Object.prototype.
MethodFn(handler, method) ==
    \/ method \in Range(handler.members)
    \/ method \in ObjectPrototypeMembers

\* addCommandSpec(obj, context): stores every annotated command of obj under
\* its id, replacing an entry that has the same id.
RECURSIVE AddCommands(_, _, _, _)
AddCommands(map, names, obj, context) ==
    IF names = << >> THEN map
    ELSE LET commandName == Head(names)
             spec == [CommandSpec(obj.commands[commandName],
                                 obj.descriptions[commandName]) EXCEPT
                         !.name = commandName, !.context = context]
             id == CommandId(spec.context, spec.name)
         IN  AddCommands(
                 IF commandName \in DOMAIN obj.commands
                 THEN (id :> spec) @@ map
                 ELSE map,
                 Tail(names), obj, context)

addCommandSpec(map, obj, context) ==
    AddCommands(map, obj.members, obj, context)

\* The constructor's five addCommandSpec calls.
commandSpecMap ==
    LET m0 == << >>
        m1 == addCommandSpec(m0, keystoreHandler, CommandContext.Keystore)
        m2 == addCommandSpec(m1, infoHandler, CommandContext.Info)
        m3 == addCommandSpec(m2, avmHandler, CommandContext.AVM)
        m4 == addCommandSpec(m3, platformHandler, CommandContext.Platform)
    IN  addCommandSpec(m4, healthHandler, CommandContext.Health)

\* The addCommandSpec calls made so far, each << handlerMap key of the
\* handler object, context >>, and the commandSpecMap they leave behind.
EmptyRegistry == << >>

Register(calls, key, context) == Append(calls, << key, context >>)

RECURSIVE RegisteredMap(_)
RegisteredMap(calls) ==
    IF calls = << >> THEN << >>
    ELSE LET last == calls[Len(calls)]
         IN  addCommandSpec(RegisteredMap(SubSeq(calls, 1, Len(calls) - 1)),
                            handlerMap(last[1]), last[2])

\* The calls of `new CommandHandler()`.
ConstructedRegistry ==
    Register(Register(Register(Register(Register(EmptyRegistry,
        "keystore", CommandContext.Keystore),
        "info", CommandContext.Info),
        "avm", CommandContext.AVM),
        "platform", CommandContext.Platform),
        "health", CommandContext.Health)

\* The constructor's loop filling contextMethodMap[context]: the handler's
\* enumerable members except those starting with "_".  The methods of a
\* handler class are enumerable (for-in lists them) as in the ES5 build the
\* shell's help and completion rely on; the members inherited from
\* Object.prototype are not.
RECURSIVE PublicMembers(_)
PublicMembers(members) ==
    IF members = << >> THEN << >>
    ELSE IF StartsWith(Head(members), "_") THEN PublicMembers(Tail(members))
    ELSE << Head(members) >> \o PublicMembers(Tail(members))

contextMethodMap(context) ==
    IF context \in Range(HandlerMapKeys)
    THEN PublicMembers(handlerMap(context).members)
    ELSE << >>

\* getTopLevelCommands(): the meta-commands, then the keys of handlerMap.
getTopLevelCommands == META_COMMANDS \o HandlerMapKeys

\* Members of Object.prototype that are functions of one parameter: found by
\* contextMethodMap[context] on the plain object, they are truthy and have
\* length 1.
InheritedArity1 ==
    {"constructor", "hasOwnProperty", "isPrototypeOf", "propertyIsEnumerable"}

\* getContextCommands(context): the entries of contextMethodMap[context] || [],
\* then the meta-commands.  For an inherited function the (ES5) loop runs over
\* its length and pushes undefined; an ES2015 build throws "not iterable" at
\* the same place.
getContextCommands(context) ==
    (IF context \in InheritedArity1 THEN << Undefined >>
     ELSE contextMethodMap(context))
    \o META_COMMANDS

\* isContext(context): truthiness of handlerMap[context]
isContext(context) == handlerMap(context).defined

\* getCommandSpec(context, method): commandSpecMap[`${context}_${method}`],
\* with .defined = FALSE for undefined.
getCommandSpec(context, method) ==
    LET commandId == CommandId(context, method)
    IN  IF commandId \in DOMAIN commandSpecMap
        THEN [defined |-> TRUE, spec |-> commandSpecMap[commandId]]
        ELSE [defined |-> FALSE, spec |-> CommandSpec(<< >>, Undefined)]

\* ------------------------------------------------------------ input lines
ArgTokens == {"a", "b"}

Tokens ==
    {"help", "exit", "connect"}
    \cup Range(HandlerMapKeys)
    \cup {"constructor", "bogus"}
    \cup {"nodeId", "getSubnets", "createSubnet", "_getActiveUser",
          "send", "importAVAX"}
    \cup ArgTokens

ArgSeqs == UNION {[1..k -> ArgTokens] : k \in 0..MaxArgs}

\* The token sequences of the lines the front-end may deliver.
Lines ==
    {<< >>}
    \cup {<< t >> : t \in Tokens}
    \cup {<< t, u >> \o args : t \in Tokens, u \in Tokens, args \in ArgSeqs}

\* params[i] with JavaScript's 0-based index; undefined past the end.
At(params, i) == IF i + 1 <= Len(params) THEN params[i + 1] ELSE Undefined

\* A parameter default applies when the argument is undefined.
OrDefault(v, d) == IF v = Undefined THEN d ELSE v

\* -------------------------------------------------------------- completer
PartialTokens ==
    {"pl", "Pl", "he", "e", "get", "a", "info", "platform", "constructor"}

\* The token sequences of the partial lines handed to the completer.
PartialLines == UNION {[1..k -> PartialTokens] : k \in 0..MaxPartial}

\* What the completer hands back: a pair [completions, prefix] ("result"),
\* nothing ("undefined"), or a TypeError ("throws").
CompleterResult(kind, completions, prefix) ==
    [kind |-> kind, completions |-> completions, prefix |-> prefix]

\* getCompletions(needle, haystack) and the pair built from it;
\* c.startsWith fails on an undefined entry.
getCompletions(needle, haystack) ==
    IF Undefined \in Range(haystack)
    THEN CompleterResult("throws", << >>, Undefined)
    ELSE CompleterResult("result",
                         SelectSeq(haystack, LAMBDA c : StartsWith(c, needle)),
                         needle)

\* AvaShell.completer(line), with params = splitTokens(line).
completer(params, context0) ==
    IF Len(params) = 0 THEN CompleterResult("result", << >>, "")
    ELSE IF ~Truthy(context0)
    THEN IF Len(params) = 1
         THEN getCompletions(params[1], getTopLevelCommands)
         ELSE IF Len(params) = 2
         THEN getCompletions(params[2], getContextCommands(params[1]))
         ELSE CompleterResult("undefined", << >>, Undefined)
    ELSE IF Len(params) = 1
         THEN getCompletions(params[1], getContextCommands(context0))
         ELSE CompleterResult("result", << >>, "")

\* ----------------------------------------------- pending transactions
\* PendingTxState
PendingTxState ==
    [Processing |-> "Processing", Accepted |-> "Accepted",
     Rejected |-> "Rejected", Unknown |-> "Unknown"]

\* The states a status update moves an entry to.
PolledStates ==
    {PendingTxState.Accepted, PendingTxState.Rejected, PendingTxState.Unknown}

\* The transaction ids the node hands back to the submitting handlers.
TxIds == {"tx123", "tx456"}

\* PendingTxService.add(id): appends {id, state = Processing}; no look at
\* the entries already there.
addUnlessKnown(txs, id) ==
    IF \E i \in 1..Len(txs) : txs[i].id = id THEN txs
    ELSE Append(txs, [id |-> id, state |-> PendingTxState.Processing])

add(txs, id) == Append(txs, [id |-> id, state |-> PendingTxState.Processing])

\* A status update of the poller: the state of one entry changes.
setState(txs, i, state) == [txs EXCEPT ![i].state = state]

\* PendingTxService.list(): all entries, in insertion order.
list(txs) == txs

\* The rows listTxs prints for list(): one per entry, in order, the state
\* shown being tx.state || PendingTxState.Processing.  (With no entries it
\* prints "No transactions submitted" and no rows.)
listTxs(ptxs) ==
    [i \in 1..Len(ptxs) |->
        [id |-> ptxs[i].id,
         state |-> IF Truthy(ptxs[i].state) THEN ptxs[i].state
                   ELSE PendingTxState.Processing]]

NoTrackerLog == [added |-> << >>, updated |-> {}]

\* The avm handlers that end with App.pendingTxService.add(res).
SubmittingHandlers ==
    {"createFixedCapAsset", "mint", "importAVAX", "exportAVAX", "send"}

\* Two avm handlers that make a node call and leave the tracker alone
\* (in createVariableCapAsset the add is commented out).
OtherHandlers == {"createVariableCapAsset", "getTxStatus"}

\* The steps of a handler from its awaited node call on: the call throws, or
\* it returns res and a submitting handler goes on to add(res).  The value
\* is the sequence of ids handed to add.
AddsWhateverTheOutcome(method, ok, res) ==
    IF method \in SubmittingHandlers THEN << res >> ELSE << >>

AfterNodeCall(method, ok, res) ==
    IF ok /\ method \in SubmittingHandlers THEN << res >> ELSE << >>

\* No handler call in progress.
NoSubmission == [method |-> Undefined, stage |-> "none"]

\* ------------------------------------------------------------- dispatcher
NoConnect == << >>

\* What one run of handleCommand decides, before any awaited call returns:
\* the message printed or the call made (outcome), the resolved context and
\* method, the arguments of the call, the arguments passed to connectAvaNode
\* and the help sections printed.  For the two context transitions of
\* evalHandler, context is the context that was active before the line.
Decision(outcome, context, method, args, connect, help) ==
    [outcome |-> outcome, context |-> context, method |-> method,
     args |-> args, connect |-> connect, help |-> help]

Plain(outcome) == Decision(outcome, Undefined, Undefined, << >>, NoConnect, Undefined)

\* App.connectAvaNode's parameter list with its defaults.
ConnectParams(address, port, protocol) ==
    << OrDefault(address, "127.0.0.1"), OrDefault(port, "9650"),
       OrDefault(protocol, "http") >>

\* What handleCommand writes when validateInput fails.
InvalidArguments(commandSpec) ==
    << << "Invalid Arguments" >> >> \o printUsage(commandSpec, "Usage: ")

\* handleCommand from the commandSpec lookup on: validation, then the call.
ValidateAndCall(context, method, params) ==
    LET commandSpec == getCommandSpec(context, method)
    IN  IF commandSpec.defined /\ ~ValidateInput(commandSpec.spec, params)
        THEN Decision("invalid_arguments", context, method, params, NoConnect, Undefined)
        ELSE Decision("invoke", context, method, params, NoConnect, Undefined)

\* handleCommand from the connectivity check on.
CheckConnectedSkipped(context, method, params, connected) ==
    ValidateAndCall(context, method, params)

CheckConnected(context, method, params, connected) ==
    IF ~connected
    THEN Decision("disconnected", context, method, params, NoConnect, Undefined)
    ELSE ValidateAndCall(context, method, params)

\* handleCommand from the handler lookup on; params are the tokens left after
\* the context has been resolved.
Dispatch(context, params, connected) ==
    LET handler == handlerMap(context)
    IN  IF ~handler.defined
        THEN Decision("unknown_context", context, Undefined, << >>, NoConnect, Undefined)
        ELSE LET method == Head(params)
                 rest == Tail(params)
             IN  IF ~MethodFn(handler, method)
                 THEN Decision("unknown_method", context, method, << >>, NoConnect, Undefined)
                 ELSE CheckConnected(context, method, rest, connected)

\* printHelp: `targetContext = targetContext || this.activeContext`
printHelpTargetOnly(targetContext, active) == targetContext

printHelpActiveFirst(targetContext, active) ==
    IF Truthy(active) THEN active ELSE targetContext

printHelpTarget(targetContext, active) ==
    IF Truthy(targetContext) THEN targetContext ELSE active

\* `let methods = this.contextMethodMap[context].slice(); methods.sort()`:
\* the sorted list and the array the map holds afterwards.
SortedInPlace(registered) ==
    [methods |-> Sort(registered), registered |-> Sort(registered)]

SortedCopy(registered) ==
    [methods |-> Sort(registered), registered |-> registered]

\* What printHelp writes for one method of a context: the usage of its
\* command spec with a four-blank prefix, or the bare method name and an
\* empty line.
HelpEntry(context, method) ==
    LET commandSpec == getCommandSpec(context, method)
    IN  IF commandSpec.defined
        THEN printUsage(commandSpec.spec, "    ")
        ELSE << << "    ", method >>, << >> >>

\* The loop of printHelp over the sorted contexts: one section per context
\* that is not skipped, listing the context's commands in sorted order, what
\* is written for each, and contextMethodMap[context] as the loop leaves it.
RECURSIVE HelpSections(_, _)
HelpSections(contexts, target) ==
    IF contexts = << >> THEN << >>
    ELSE IF Truthy(target) /\ Head(contexts) # target
    THEN HelpSections(Tail(contexts), target)
    ELSE LET context == Head(contexts)
             sorted == SortedCopy(contextMethodMap(context))
         IN  << [context |-> context,
                 methods |-> sorted.methods,
                 rendered |-> [i \in 1..Len(sorted.methods) |->
                                  HelpEntry(context, sorted.methods[i])],
                 registered |-> sorted.registered] >>
             \o HelpSections(Tail(contexts), target)

\* printHelp(targetContext): the sections printed.
printHelp(targetContext, active) ==
    HelpSections(Sort(HandlerMapKeys), printHelpTarget(targetContext, active))

\* `if (params[0] == "connect")`, tested before the context is looked at.
IsConnectCommandAtTopLevel(params, context0) ==
    params[1] = "connect" /\ ~Truthy(context0)

IsConnectCommand(params, context0) == params[1] = "connect"

\* handleCommand(cmd), with params = splitTokens(cmd).
handleCommand(params, context0, connected) ==
    IF Len(params) < 1 THEN Plain("help_basic")
    ELSE IF Len(params) = 1 /\ params[1] = "help"
    THEN Decision("help", Undefined, Undefined, << >>, NoConnect,
                  printHelp(Null, context0))
    ELSE IF Len(params) = 2 /\ isContext(params[1]) /\ params[2] = "help"
    THEN Decision("help", Undefined, Undefined, << >>, NoConnect,
                  printHelp(params[1], context0))
    ELSE IF IsConnectCommand(params, context0)
    THEN LET shifted == Tail(params)
         IN  Decision("connect", Undefined, Undefined, << >>,
                      ConnectParams(At(shifted, 1), At(shifted, 2), At(shifted, 3)),
                      Undefined)
    ELSE IF ~Truthy(context0)
    THEN IF Len(params) < 2 THEN Plain("help_basic")
         ELSE Dispatch(Head(params), Tail(params), connected)
    ELSE Dispatch(context0, params, connected)

\* The disposition of a handler failure at the try/catch around the call in
\* handleCommand: TRUE iff the error leaves handleCommand.
RethrowsFailure(handlerFailed) == handlerFailed

ThrowsOut(handlerFailed) == FALSE

\* App.connectAvaNode: the value of isConnected when the attempt has run.
\* failAt says where the try block failed: "none", "init" (before the flag
\* is set) or "after" (after the flag is set).
KeepFlagOnFailure(flag, failAt) == IF failAt = "none" THEN TRUE ELSE flag

connectAvaNode(flag, failAt) ==
    CASE failAt = "none" -> TRUE
      [] failAt = "init" -> FALSE
      [] failAt = "after" -> FALSE

FailPoints == {"none", "init", "after"}

\* The `exit` branch of evalHandler: TRUE to leave the context, FALSE to
\* terminate the process.
ExitAlwaysTerminates(context) == FALSE

ExitLeavesContext(context) == Truthy(context)

\* The context-entry branch of evalHandler.
EntersOnlyAtTopLevel(line, context) ==
    Len(line) = 1 /\ isContext(line[1]) /\ ~Truthy(context)

EntersContext(line, context) ==
    Len(line) = 1 /\ isContext(line[1]) /\ context # line[1]

\* `await App.commandHandler.handleCommand(cmd)`: where evalHandler stands
\* when handleCommand has run to its first awaited call ("await": suspended
\* until that call finishes) or to its end ("done": about to call back).
CallsBackAtOnce(outcome) == "done"

AfterHandleCommand(outcome) ==
    IF outcome \in {"connect", "invoke"} THEN "await" ELSE "done"

\* `process.exit()` in evalHandler: where evalHandler stands afterwards and
\* what has been decided for the line.  Node's process.exit() ends the
\* process and does not return; no `return` follows the call, so a
\* process.exit that returned would let evalHandler go on to handleCommand.
ProcessExitReturns(line, context0, connected) ==
    LET d == handleCommand(line, context0, connected)
    IN  [pc |-> AfterHandleCommand(d.outcome), decision |-> d]

ProcessExit(line, context0, connected) ==
    [pc |-> "exited", decision |-> Plain("process_exit")]

\* updatePrompt(): the prompt handed to replServer.setPrompt.
updatePromptBare(context) == Chars["ava"] \o Chars["> "]

updatePrompt(context) ==
    (IF Truthy(context)
     THEN Chars["ava"] \o Chars[" "] \o Chars[context]
     ELSE Chars["ava"])
    \o Chars["> "]

\* No REPL yet.
NoPrompt == << >>

\* ------------------------------------------------------------------ state
VARIABLES
    pc,             \* "init", "idle", "eval", "await", "done", "exited" or
                    \* "completing"
    cmd,            \* the tokens of the line evalHandler is evaluating
    activeContext,  \* CommandHandler.activeContext
    isConnected,    \* App.isConnected
    decision,       \* what handleCommand / evalHandler decided for cmd
    pending,        \* the awaited call: "none", "startup", "connect", "handler"
    failed,         \* the awaited call (handler or connection attempt) failed
    thrown,         \* an error left handleCommand
    registry,       \* the addCommandSpec calls that built commandSpecMap
    completion,     \* the last partial line completed at the prompt and the answer
    pendingTxs,     \* the entries App.pendingTxService holds, in insertion order
    trackerLog,     \* the ids handed to add() so far, in call order, and the
                    \* positions of the entries that got a status update
    prompt,         \* the prompt of the REPL, as a sequence of characters
    submission      \* the avm handler being run and how far it is: "none",
                    \* "node" (awaiting its node call), "returned", "thrown"

vars == << pc, cmd, activeContext, isConnected, decision, pending, failed, thrown,
           registry, completion, pendingTxs, trackerLog, submission,
           prompt >>

\* The variables of the pending-transaction tracker.
tracker == << pendingTxs, trackerLog, submission >>

\* The variables of the shell session.
session ==
    << pc, cmd, activeContext, isConnected, decision, pending, failed, thrown,
       prompt >>

NoDecision == Plain("none")

NoCompletion == [line |-> << >>, result |-> CompleterResult("none", << >>, Undefined)]

Init ==
    /\ pc = "init"
    /\ cmd = << >>
    /\ activeContext = Undefined
    /\ isConnected = FALSE
    /\ decision = NoDecision
    /\ pending = "none"
    /\ failed = FALSE
    /\ thrown = FALSE
    /\ registry = EmptyRegistry
    /\ completion = NoCompletion
    /\ pendingTxs = << >>
    /\ trackerLog = NoTrackerLog
    /\ submission = NoSubmission
    /\ prompt = NoPrompt

\* main() -> App.init(): the first connectAvaNode(), with all defaults.
AppInit ==
    /\ pc = "init"
    /\ pc' = "await"
    /\ pending' = "startup"
    /\ decision' = Decision("connect", Undefined, Undefined, << >>,
                            ConnectParams(Undefined, Undefined, Undefined), Undefined)
    /\ UNCHANGED << cmd, activeContext, isConnected, failed, thrown >>
    /\ UNCHANGED << registry, completion >>
    /\ UNCHANGED tracker
    /\ UNCHANGED prompt

\* The REPL calls the eval hook with the next line.
ReadLine ==
    /\ pc = "idle"
    /\ \E line \in Lines : cmd' = line
    /\ pc' = "eval"
    /\ failed' = FALSE
    /\ thrown' = FALSE
    /\ UNCHANGED << activeContext, isConnected, decision, pending >>
    /\ UNCHANGED << registry, completion >>
    /\ UNCHANGED tracker
    /\ UNCHANGED prompt

\* evalHandler up to its first suspension (or to its end).
EvalHandler ==
    /\ pc = "eval"
    /\ IF cmd = << >>
       THEN /\ decision' = Plain("empty_line")
            /\ pc' = "done"
            /\ UNCHANGED << activeContext, pending, prompt >>
       ELSE IF cmd = << "exit" >>
       THEN IF ExitLeavesContext(activeContext)
            THEN /\ activeContext' = Null
                 /\ prompt' = updatePrompt(activeContext')
                 /\ decision' = Decision("exit_context", activeContext, Undefined,
                                         << >>, NoConnect, Undefined)
                 /\ pc' = "done"
                 /\ UNCHANGED pending
            ELSE LET exit == ProcessExit(cmd, activeContext, isConnected)
                 IN  /\ decision' = exit.decision
                     /\ pc' = exit.pc
                     /\ UNCHANGED << activeContext, pending, prompt >>
       ELSE IF EntersContext(cmd, activeContext)
       THEN /\ activeContext' = cmd[1]
            /\ prompt' = updatePrompt(activeContext')
            /\ decision' = Decision("enter_context", activeContext, Undefined,
                                    << >>, NoConnect, Undefined)
            /\ pc' = "done"
            /\ UNCHANGED pending
       ELSE LET d == handleCommand(cmd, activeContext, isConnected)
            IN  /\ decision' = d
                /\ pending' = CASE d.outcome = "connect" -> "connect"
                                [] d.outcome = "invoke" -> "handler"
                                [] OTHER -> "none"
                /\ pc' = AfterHandleCommand(d.outcome)
                /\ UNCHANGED << activeContext, prompt >>
    /\ UNCHANGED << cmd, isConnected, failed, thrown >>
    /\ UNCHANGED << registry, completion >>
    /\ UNCHANGED tracker

\* The awaited connectAvaNode call finishes; it catches its own failure.
ConnectReturn ==
    /\ pc = "await"
    /\ pending \in {"startup", "connect"}
    /\ \E failAt \in FailPoints :
          /\ isConnected' = connectAvaNode(isConnected, failAt)
          /\ failed' = (failAt # "none")
    /\ pc' = IF pending = "startup" THEN "idle" ELSE "done"
    /\ decision' = IF pending = "startup" THEN NoDecision ELSE decision
    /\ pending' = "none"
    \* App.init goes on to `new CommandHandler()`
    /\ registry' = IF pending = "startup" THEN ConstructedRegistry ELSE registry
    \* and main() to repl.start with prompt 'ava> '
    /\ prompt' = IF pending = "startup" THEN Chars["ava> "] ELSE prompt
    /\ UNCHANGED << cmd, activeContext, thrown, completion >>
    /\ UNCHANGED tracker

\* The awaited handler call returns or fails.
HandlerReturn ==
    /\ pc = "await"
    /\ pending = "handler"
    /\ \E ok \in BOOLEAN :
          /\ failed' = ~ok
          /\ thrown' = ThrowsOut(~ok)
    /\ pc' = "done"
    /\ pending' = "none"
    /\ UNCHANGED << cmd, activeContext, isConnected, decision >>
    /\ UNCHANGED << registry, completion >>
    /\ UNCHANGED tracker
    /\ UNCHANGED prompt

\* evalHandler calls back; the REPL prompts for the next line.
Callback ==
    /\ pc = "done"
    /\ pc' = "idle"
    /\ cmd' = << >>
    /\ decision' = NoDecision
    /\ failed' = FALSE
    /\ thrown' = FALSE
    /\ UNCHANGED << activeContext, isConnected, pending >>
    /\ UNCHANGED << registry, completion >>
    /\ UNCHANGED tracker
    /\ UNCHANGED prompt

\* The REPL asks the completer about a partial line typed at the prompt.
Complete ==
    /\ pc = "idle"
    /\ \E line \in PartialLines :
          completion' = [line |-> line, result |-> completer(line, activeContext)]
    /\ pc' = "completing"
    /\ UNCHANGED << cmd, activeContext, isConnected, decision, pending, failed, thrown >>
    /\ UNCHANGED registry
    /\ UNCHANGED tracker
    /\ UNCHANGED prompt

\* The REPL has shown the completions and is back at the prompt.
ShowCompletions ==
    /\ pc = "completing"
    /\ pc' = "idle"
    /\ completion' = NoCompletion
    /\ UNCHANGED << cmd, activeContext, isConnected, decision, pending, failed, thrown >>
    /\ UNCHANGED registry
    /\ UNCHANGED tracker
    /\ UNCHANGED prompt

Next ==
    \/ AppInit
    \/ ReadLine
    \/ Complete
    \/ ShowCompletions
    \/ EvalHandler
    \/ ConnectReturn
    \/ HandlerReturn
    \/ Callback

Spec == Init /\ [][Next]_vars

\* ------------------------------------------------- registration on its own
\* addCommandSpec applied to any handler and any context label, each handler
\* object being registered at most once, as in the constructor.
InitRegistry == Init

AddCommandSpec ==
    /\ Len(registry) < MaxRegistrations
    /\ \E key \in Range(HandlerMapKeys), context \in Range(HandlerMapKeys) :
          /\ \A i \in 1..Len(registry) : registry[i][1] # key
          /\ registry' = Register(registry, key, context)
    /\ UNCHANGED << session, completion, tracker >>

NextRegistry == AddCommandSpec

SpecRegistry == InitRegistry /\ [][NextRegistry]_vars

\* ---------------------------------------------------- tracker on its own
\* The avm handlers that reach the tracker, run one at a time, and the status
\* updates of the poller, which may come between the steps of a handler.
InitTracker == Init

\* A handler is called: without an active user it returns at once, and so
\* does createFixedCapAsset on an odd number of holder arguments; otherwise
\* it awaits its node call.
HandlerCall ==
    /\ submission.stage = "none"
    /\ Len(pendingTxs) < MaxTxs
    /\ \E method \in SubmittingHandlers \cup OtherHandlers,
          user \in BOOLEAN, evenArgs \in BOOLEAN :
          submission' =
              [method |-> method,
               stage |-> IF method # "getTxStatus" /\ ~user THEN "returned"
                         ELSE IF method \in {"createFixedCapAsset",
                                             "createVariableCapAsset"}
                                 /\ ~evenArgs
                         THEN "returned"
                         ELSE "node"]
    /\ UNCHANGED << pendingTxs, trackerLog >>
    /\ UNCHANGED << session, registry, completion >>

\* The awaited node call returns a transaction id or throws.
NodeCallReturn ==
    /\ submission.stage = "node"
    /\ \E ok \in BOOLEAN, res \in TxIds :
          /\ LET added == AfterNodeCall(submission.method, ok, res)
             IN  /\ pendingTxs' = IF added = << >> THEN pendingTxs
                                  ELSE add(pendingTxs, added[1])
                 /\ trackerLog' = [trackerLog EXCEPT !.added = @ \o added]
          /\ submission' = [submission EXCEPT
                                !.stage = IF ok THEN "returned" ELSE "thrown"]
    /\ UNCHANGED << session, registry, completion >>

\* handleCommand is left (an error of the handler is caught and logged).
HandlerDone ==
    /\ submission.stage \in {"returned", "thrown"}
    /\ submission' = NoSubmission
    /\ UNCHANGED << pendingTxs, trackerLog >>
    /\ UNCHANGED << session, registry, completion >>

StatusUpdate ==
    /\ \E i \in 1..Len(pendingTxs), state \in PolledStates :
          /\ pendingTxs[i].state = PendingTxState.Processing
          /\ pendingTxs' = setState(pendingTxs, i, state)
          /\ trackerLog' = [trackerLog EXCEPT !.updated = @ \cup {i}]
    /\ UNCHANGED submission
    /\ UNCHANGED << session, registry, completion >>

NextTracker ==
    \/ HandlerCall
    \/ NodeCallReturn
    \/ HandlerDone
    \/ StatusUpdate

SpecTracker == InitTracker /\ [][NextTracker]_vars

TypeOK ==
    /\ pc \in {"init", "idle", "eval", "await", "done", "exited", "completing"}
    /\ cmd \in Lines
    /\ isConnected \in BOOLEAN
    /\ pending \in {"none", "startup", "connect", "handler"}

\* ------------------------------------------------------------- properties
\* The context and method tokens of a line and the tokens after them, given
\* the context active when the line is read.
LineContext(line, context) == IF Truthy(context) THEN context ELSE At(line, 0)

LineMethod(line, context) == IF Truthy(context) THEN At(line, 0) ELSE At(line, 1)

LineArgs(line, context) ==
    IF Truthy(context) THEN SubSeq(line, 2, Len(line)) ELSE SubSeq(line, 3, Len(line))

RegisteredContexts == Range(HandlerMapKeys)

\* The number of fields of a command that have no default.
FieldsWithoutDefault(fields) ==
    Cardinality({i \in 1..Len(fields) : fields[i].defaultValue = Null})

\* C1: while the session is disconnected, a line that names a registered
\* context and one of its commands gets the disconnection refusal and no
\* handler call is started.
C1_DisconnectedRefusal ==
    [][(/\ pc = "eval"
        /\ ~isConnected
        /\ LineContext(cmd, activeContext) \in RegisteredContexts
        /\ LineMethod(cmd, activeContext)
              \in Range(contextMethodMap(LineContext(cmd, activeContext))))
       => (/\ decision'.outcome = "disconnected"
           /\ pc' = "done"
           /\ pending' = "none")]_vars

C1_Witness ==
    /\ pc = "done"
    /\ ~isConnected
    /\ cmd = << "info", "nodeId" >>
    /\ decision.outcome = "disconnected"

\* C2: `exit` with a context active sets activeContext to null and does not
\* terminate; `exit` with no active context terminates the process.
C2_ExitPopsOrTerminates ==
    [][(pc = "eval" /\ cmd = << "exit" >>)
       => IF Truthy(activeContext)
          THEN activeContext' = Null /\ pc' = "done"
          ELSE pc' = "exited" /\ activeContext' = activeContext]_vars

\* Terminated after a context had been entered and left.
C2_Witness ==
    /\ pc = "exited"
    /\ activeContext = Null

\* C3 as stated: activeContext changes only from top level to a context, on a
\* line that is exactly a known context name, and from a context to top
\* level, on `exit`.
C3_Original ==
    [][(activeContext' # activeContext)
       => (/\ pc = "eval"
           /\ \/ (/\ ~Truthy(activeContext)
                  /\ Len(cmd) = 1
                  /\ isContext(cmd[1])
                  /\ activeContext' = cmd[1])
              \/ (/\ Truthy(activeContext)
                  /\ cmd = << "exit" >>
                  /\ activeContext' = Null))]_vars

\* C3 amended: activeContext changes only to a context, on a line that is
\* exactly a known context name other than the active context (at top level
\* or while another context is active), and to null, on `exit` with a context
\* active; and every such line does change it.
C3_Transitions ==
    [][/\ (activeContext' # activeContext)
          => (/\ pc = "eval"
              /\ \/ (/\ Len(cmd) = 1
                     /\ isContext(cmd[1])
                     /\ cmd[1] # activeContext
                     /\ activeContext' = cmd[1])
                 \/ (/\ Truthy(activeContext)
                     /\ cmd = << "exit" >>
                     /\ activeContext' = Null))
       /\ (/\ pc = "eval"
           /\ Len(cmd) = 1
           /\ cmd[1] # "exit"
           /\ isContext(cmd[1])
           /\ cmd[1] # activeContext)
          => activeContext' = cmd[1]]_vars

\* A context entered while another context was active.
C3_Witness ==
    /\ pc = "done"
    /\ decision.outcome = "enter_context"
    /\ decision.context \in RegisteredContexts
    /\ activeContext \in RegisteredContexts
    /\ activeContext # decision.context

\* C4: activeContext is unset or a registered context name.
C4_ActiveContextRegistered ==
    activeContext \in {Null, Undefined} \cup RegisteredContexts

\* C5: a failure of the awaited handler call does not leave handleCommand and
\* changes neither activeContext nor the connectivity flag; the line then
\* completes and the next line is read.
C5_HandlerFailureSwallowed ==
    [][/\ (pc = "await" /\ pending = "handler" /\ failed')
          => (/\ ~thrown'
              /\ pc' = "done"
              /\ activeContext' = activeContext
              /\ isConnected' = isConnected)
       /\ (pc = "done" /\ decision.outcome = "invoke" /\ failed)
          => (/\ pc' = "idle"
              /\ activeContext' = activeContext
              /\ isConnected' = isConnected)]_vars

C5_Witness ==
    /\ pc = "done"
    /\ decision.outcome = "invoke"
    /\ failed
    /\ ~thrown

\* C6: `connect` passes the 2nd, 3rd and 4th token of the line as host, port
\* and protocol, each absent one taking its default.
C6_ConnectArguments ==
    (pc = "await" /\ pending = "connect")
    => decision.connect =
          << OrDefault(At(cmd, 1), "127.0.0.1"),
             OrDefault(At(cmd, 2), "9650"),
             OrDefault(At(cmd, 3), "http") >>

\* C7: when a connect attempt completes, the connectivity flag is true iff
\* the attempt succeeded, no error is raised and the session goes on.
C7_FlagIffConnected ==
    [][(pc = "await" /\ pending \in {"startup", "connect"})
       => (/\ isConnected' = ~failed'
           /\ ~thrown'
           /\ pc' = IF pending = "startup" THEN "idle" ELSE "done")]_vars

\* A failed `connect` command: flag false, the line completes.
C7_Witness ==
    /\ pc = "done"
    /\ decision.outcome = "connect"
    /\ failed
    /\ ~isConnected

\* C8: when a Command Spec exists for the resolved command and the session is
\* connected, the handler is called iff the number of remaining tokens is at
\* least the number of its fields without default; otherwise the outcome is
\* the invalid-arguments message and no call.
C8_ArityValidation ==
    [][(/\ pc = "eval"
        /\ decision'.outcome \in {"invalid_arguments", "invoke"}
        /\ getCommandSpec(LineContext(cmd, activeContext),
                          LineMethod(cmd, activeContext)).defined)
       => LET spec == getCommandSpec(LineContext(cmd, activeContext),
                                     LineMethod(cmd, activeContext)).spec
              enough == Len(LineArgs(cmd, activeContext))
                            >= FieldsWithoutDefault(spec.fields)
          IN  /\ enough => (decision'.outcome = "invoke" /\ pending' = "handler")
              /\ ~enough => (/\ decision'.outcome = "invalid_arguments"
                             /\ pending' = "none"
                             /\ pc' = "done")]_vars

\* `avm send` with two of its three required arguments.
C8_Witness ==
    /\ pc = "done"
    /\ cmd = << "avm", "send", "a", "b" >>
    /\ decision.outcome = "invalid_arguments"

\* C9: with the session connected, getSubnets and createSubnet given no token
\* for their variadic last field are called.
C9_VariadicMayBeEmpty ==
    [][(/\ pc = "eval"
        /\ isConnected
        /\ \/ (/\ ~Truthy(activeContext)
               /\ cmd \in {<< "platform", "getSubnets" >>,
                           << "platform", "createSubnet", "a" >>})
           \/ (/\ activeContext = "platform"
               /\ cmd \in {<< "getSubnets" >>, << "createSubnet", "a" >>}))
       => decision'.outcome = "invoke"]_vars

\* C10: a handler member is called only if it is one of the commands
\* enumerated for the resolved context.
C10_OnlyEnumeratedCommands ==
    (pc = "await" /\ pending = "handler")
    => decision.method \in Range(contextMethodMap(decision.context))

\* A line that handleCommand takes to context and method resolution: not
\* `exit`, not a bare context name, not a help or connect form, and with a
\* context to resolve (one active, or at least two tokens).
ReachesResolution(line, context) ==
    /\ Len(line) >= 1
    /\ line # << "exit" >>
    /\ ~(Len(line) = 1 /\ isContext(line[1]))
    /\ line # << "help" >>
    /\ ~(Len(line) = 2 /\ isContext(line[1]) /\ line[2] = "help")
    /\ line[1] # "connect"
    /\ (Truthy(context) \/ Len(line) >= 2)

\* C11: a line whose resolved context is not a registered context gets the
\* unknown-context message, a line whose method token is not a command of the
\* resolved context gets the unknown-method message; neither starts a call,
\* raises, or changes the session state.
C11_UnknownContextOrMethod ==
    [][(pc = "eval" /\ ReachesResolution(cmd, activeContext))
       => LET context == LineContext(cmd, activeContext)
              method == LineMethod(cmd, activeContext)
          IN  /\ (context \notin RegisteredContexts)
                 => (/\ decision'.outcome = "unknown_context"
                     /\ pc' = "done" /\ pending' = "none" /\ ~thrown'
                     /\ activeContext' = activeContext
                     /\ isConnected' = isConnected)
              /\ (/\ context \in RegisteredContexts
                  /\ method \notin Range(contextMethodMap(context)))
                 => (/\ decision'.outcome = "unknown_method"
                     /\ pc' = "done" /\ pending' = "none" /\ ~thrown'
                     /\ activeContext' = activeContext
                     /\ isConnected' = isConnected)]_vars

\* The contexts that have a section in a printed help.
HelpContexts(help) == {help[i].context : i \in 1..Len(help)}

\* C12 as stated: the line `help` prints the help of all contexts in every
\* session state.
C12_Original ==
    [][(pc = "eval" /\ cmd = << "help" >>)
       => (/\ decision'.outcome = "help"
           /\ HelpContexts(decision'.help) = RegisteredContexts)]_vars

\* C12 amended: the line `help` prints the help of all contexts at top level
\* and only the section of the active context while a context is active.
C12_HelpAllOrActive ==
    [][(pc = "eval" /\ cmd = << "help" >>)
       => (/\ decision'.outcome = "help"
           /\ HelpContexts(decision'.help) =
                 IF Truthy(activeContext)
                 THEN RegisteredContexts \cap {activeContext}
                 ELSE RegisteredContexts)]_vars

\* `help` typed inside avm printed the avm section only.
C12_Witness ==
    /\ pc = "done"
    /\ cmd = << "help" >>
    /\ activeContext = "avm"
    /\ decision.outcome = "help"
    /\ HelpContexts(decision.help) = {"avm"}

\* C13: `<ctx> help` with a registered context prints the commands of <ctx>
\* only, in every session state; `help` and `<ctx> help` change neither
\* activeContext nor the connectivity flag and start no handler call.
C13_ContextHelp ==
    [][/\ (/\ pc = "eval"
           /\ Len(cmd) = 2
           /\ cmd[1] \in RegisteredContexts
           /\ cmd[2] = "help")
          => (/\ decision'.outcome = "help"
              /\ Len(decision'.help) = 1
              /\ decision'.help[1].context = cmd[1]
              /\ Range(decision'.help[1].methods) = Range(contextMethodMap(cmd[1])))
       /\ (/\ pc = "eval"
           /\ \/ cmd = << "help" >>
              \/ (Len(cmd) = 2 /\ cmd[1] \in RegisteredContexts /\ cmd[2] = "help"))
          => (/\ activeContext' = activeContext
              /\ isConnected' = isConnected
              /\ pending' = "none"
              /\ pc' = "done")]_vars

\* `keystore help` typed inside avm printed the keystore section.
C13_Witness ==
    /\ pc = "done"
    /\ cmd = << "keystore", "help" >>
    /\ activeContext = "avm"
    /\ decision.outcome = "help"
    /\ HelpContexts(decision.help) = {"keystore"}

AnnotatedCommands ==
    {<< c, n >> \in RegisteredContexts \X DOMAIN Chars :
        n \in DOMAIN handlerMap(c).commands}

\* After startup no two registered Command Specs share an id, and a lookup
\* finds exactly the annotated commands, each under its own context and name.
RegistryConsistent ==
    /\ Cardinality(DOMAIN commandSpecMap) = Cardinality(AnnotatedCommands)
    /\ \A c \in RegisteredContexts, n \in DOMAIN Chars :
          LET found == getCommandSpec(c, n)
          IN  /\ found.defined <=> (<< c, n >> \in AnnotatedCommands)
              /\ found.defined =>
                    (/\ found.spec.context = c
                     /\ found.spec.name = n
                     /\ found.spec.fields = handlerMap(c).commands[n])

\* C15: the ids of the registered Command Specs are pairwise distinct and
\* lookup(ctx, name) returns nothing or the spec of that context and name,
\* also when the dispatcher looks up a name shared by several contexts.
C15_RegistryIdsDistinct ==
    /\ RegistryConsistent
    /\ (decision.outcome \in {"invalid_arguments", "invoke"}
        /\ getCommandSpec(decision.context, decision.method).defined)
       => LET spec == getCommandSpec(decision.context, decision.method).spec
          IN  spec.context = decision.context /\ spec.name = decision.method

\* importAVAX, declared by avm and platform, dispatched to avm with avm's spec.
C15_Witness ==
    /\ pc = "await"
    /\ pending = "handler"
    /\ decision.context = "avm"
    /\ decision.method = "importAVAX"
    /\ getCommandSpec("avm", "importAVAX").spec.fields[2].defaultValue = "P"
    /\ getCommandSpec("platform", "importAVAX").spec.fields[2].defaultValue = "X"

\* C16: registering a Command Spec under an id that is already present never
\* replaces the existing entry (the registration fails instead).
C16_NoSilentReplace ==
    [][\A id \in DOMAIN RegisteredMap(registry) :
          /\ id \in DOMAIN RegisteredMap(registry')
          /\ RegisteredMap(registry')[id] = RegisteredMap(registry)[id]]_vars

\* C17: listTopLevel() is help, exit, connect followed by the registered
\* context names in the order of their registration in the handler map.
C17_TopLevelCommands ==
    (pc # "init")
    => getTopLevelCommands = << "help", "exit", "connect" >> \o HandlerMapKeys

\* The entries of a list that start with a token, in list order.
Matching(haystack, token) == SelectSeq(haystack, LAMBDA c : StartsWith(c, token))

\* listContext(ctx): the commands of ctx, then the meta-commands.
ListContext(context) == contextMethodMap(context) \o META_COMMANDS

\* C18: in its three cases the completer returns exactly the entries of the
\* relevant list that start with the token being completed, in list order.
C18_Completions ==
    (completion.result.kind # "none")
    => LET line == completion.line
           result == completion.result
       IN  /\ (~Truthy(activeContext) /\ Len(line) = 1)
              => (/\ result.kind = "result"
                  /\ result.completions = Matching(getTopLevelCommands, line[1]))
           /\ (~Truthy(activeContext) /\ Len(line) = 2)
              => (/\ result.kind = "result"
                  /\ result.completions = Matching(ListContext(line[1]), line[2]))
           /\ (Truthy(activeContext) /\ Len(line) = 1)
              => (/\ result.kind = "result"
                  /\ result.completions = Matching(ListContext(activeContext), line[1]))
           /\ (~Truthy(activeContext) /\ line = << "pl" >>)
              => result.completions = << "platform" >>

\* C19: outside the three completion cases the completer returns a
\* well-formed result with no completions.
C19_NoCompletions ==
    (/\ completion.result.kind # "none"
     /\ \/ Len(completion.line) = 0
        \/ (~Truthy(activeContext) /\ Len(completion.line) >= 3)
        \/ (Truthy(activeContext) /\ Len(completion.line) >= 2))
    => (/\ completion.result.kind = "result"
        /\ completion.result.completions = << >>)

\* C20: after any adds and status updates the listing has exactly one entry
\* per add call, in call order (duplicate ids kept, nothing removed), and an
\* entry that got no status update is listed as Processing.
C20_TrackerListing ==
    LET rows == listTxs(list(pendingTxs))
    IN  /\ Len(rows) = Len(trackerLog.added)
        /\ \A i \in 1..Len(rows) :
              /\ rows[i].id = trackerLog.added[i]
              /\ (i \notin trackerLog.updated)
                 => rows[i].state = PendingTxState.Processing

\* Two submissions with the same id and a third one, one of them updated.
C20_Witness ==
    /\ Len(trackerLog.added) >= 3
    /\ trackerLog.added[1] = trackerLog.added[2]
    /\ trackerLog.updated # {}
    /\ \E i \in 1..Len(pendingTxs) : i \notin trackerLog.updated

\* The fields of a usage line as the claim words them: each preceded by a
\* blank, `<name>` without a default and `[name=d]` with default d.
RECURSIVE RenderedFields(_)
RenderedFields(fields) ==
    IF fields = << >> THEN << >>
    ELSE LET f == Head(fields)
         IN  << " " >>
             \o (IF f.defaultValue = Null
                 THEN << "<", f.name, ">" >>
                 ELSE << "[", f.name, "=", f.defaultValue, "]" >>)
             \o RenderedFields(Tail(fields))

\* C21: the usage printed for a command (here on an arity failure) is its
\* name, then its fields in declaration order, `<name>` for a field without
\* default and `[name=d]` for one with default d, then the description on
\* the next line.
C21_UsageRendering ==
    (decision.outcome = "invalid_arguments")
    => LET declared == handlerMap(decision.context)
           lines == InvalidArguments(
                        getCommandSpec(decision.context, decision.method).spec)
       IN  /\ lines[2] = << "Usage: ", decision.method >>
                         \o RenderedFields(declared.commands[decision.method])
           /\ lines[3] = << "Usage: ", "- ", declared.descriptions[decision.method] >>

\* `platform importAVAX` without arguments: the usage shows a required field
\* and one with a default.
C21_Witness ==
    /\ decision.outcome = "invalid_arguments"
    /\ decision.context = "platform"
    /\ decision.method = "importAVAX"
    /\ InvalidArguments(getCommandSpec("platform", "importAVAX").spec)[2]
       = << "Usage: ", "importAVAX", " ", "<", "dest", ">", " ",
            "[", "sourceChain", "=", "X", "]" >>

\* The forms of a line that are not dispatched to a handler: the
\* meta-commands and the entry of a registered context.
MetaForm(line) ==
    \/ line = << "exit" >>
    \/ line = << "help" >>
    \/ (Len(line) = 2 /\ line[1] \in RegisteredContexts /\ line[2] = "help")
    \/ line[1] = "connect"
    \/ (Len(line) = 1 /\ line[1] \in RegisteredContexts)

\* The outcomes of a line that has been resolved to a context.
ResolvedOutcomes ==
    {"unknown_context", "unknown_method", "disconnected", "invalid_arguments",
     "invoke"}

\* C22: in a context c a line `m a1..an` is resolved to method m of c, at
\* top level a line `c m a1..an` to method m of c, and an invocation gets
\* exactly a1..an in order; at top level a single token that is neither a
\* meta-command nor a context name gets the basic usage hint and no call.
C22_ContextResolution ==
    [][(pc = "eval" /\ cmd # << >> /\ ~MetaForm(cmd))
       => LET d == decision'
          IN  /\ (Truthy(activeContext) \/ Len(cmd) >= 2)
                 => (/\ d.outcome \in ResolvedOutcomes
                     /\ d.context = LineContext(cmd, activeContext)
                     /\ (d.outcome # "unknown_context")
                        => d.method = LineMethod(cmd, activeContext)
                     /\ (d.outcome = "invoke")
                        => (/\ d.args = LineArgs(cmd, activeContext)
                            /\ pending' = "handler"))
              /\ (~Truthy(activeContext) /\ Len(cmd) = 1)
                 => (/\ d.outcome = "help_basic"
                     /\ pending' = "none"
                     /\ activeContext' = activeContext)]_vars

\* The outcome the precedence of the claim gives a line passed to the
\* dispatcher: help, connect, usage hint for an unresolvable context, unknown
\* context, unknown method, refusal while disconnected, invalid arguments,
\* invocation.
ExpectedOutcome(line, context0, connected) ==
    LET context == LineContext(line, context0)
        method == LineMethod(line, context0)
        args == LineArgs(line, context0)
    IN  IF line = << >> THEN "help_basic"
        ELSE IF \/ line = << "help" >>
                \/ (Len(line) = 2 /\ line[1] \in RegisteredContexts
                    /\ line[2] = "help")
        THEN "help"
        ELSE IF line[1] = "connect" THEN "connect"
        ELSE IF ~Truthy(context0) /\ Len(line) < 2 THEN "help_basic"
        ELSE IF context \notin RegisteredContexts THEN "unknown_context"
        ELSE IF method \notin Range(contextMethodMap(context)) THEN "unknown_method"
        ELSE IF ~connected THEN "disconnected"
        ELSE IF /\ method \in DOMAIN handlerMap(context).commands
                /\ Len(args)
                   < FieldsWithoutDefault(handlerMap(context).commands[method])
        THEN "invalid_arguments"
        ELSE "invoke"

\* The lines evalHandler hands to the dispatcher: not empty, not `exit`, not
\* the entry of a registered context.
Dispatched(line, context0) ==
    /\ line # << >>
    /\ line # << "exit" >>
    /\ ~(Len(line) = 1 /\ line[1] \in RegisteredContexts /\ context0 # line[1])

\* C23: each handled line has the one outcome the precedence gives it; in
\* particular an unknown context or method is reported as such whether or not
\* the session is connected, and while disconnected the refusal comes before
\* the invalid-arguments message.
C23_OutcomePrecedence ==
    [][(pc = "eval" /\ Dispatched(cmd, activeContext))
       => /\ decision'.outcome = ExpectedOutcome(cmd, activeContext, isConnected)
          /\ handleCommand(<< >>, activeContext, isConnected).outcome
             = ExpectedOutcome(<< >>, activeContext, isConnected)]_vars

\* C24: a `connect` line starts a connection attempt in either state and
\* whatever the connectivity flag is, the attempt leaves activeContext as it
\* was whether it succeeds or fails, and the flag changes only when the
\* attempt of a `connect` line (or of the startup) finishes.
C24_ConnectFrame ==
    [][/\ (pc = "eval" /\ cmd # << >> /\ cmd[1] = "connect")
          => (/\ decision'.outcome = "connect"
              /\ pending' = "connect"
              /\ pc' = "await"
              /\ activeContext' = activeContext)
       /\ (decision.outcome = "connect" /\ pc \in {"await", "done"})
          => activeContext' = activeContext
       /\ (isConnected' # isConnected)
          => (/\ pc = "await"
              /\ \/ pending = "startup"
                 \/ (pending = "connect" /\ cmd # << >> /\ cmd[1] = "connect"))]_vars

\* A `connect` typed inside a context has failed: the context is still
\* active.
C24_Witness ==
    /\ pc = "done"
    /\ decision.outcome = "connect"
    /\ cmd[1] = "connect"
    /\ failed
    /\ activeContext \in RegisteredContexts

\* C25: a submitting handler appends exactly one entry, and only when its
\* node call has returned; without an active user or when the node call
\* throws the entries stay as they are; no step of a handler removes or
\* changes an entry already there.
C25_SubmissionAppendsOnce ==
    [][(submission' # submission)
       => /\ (/\ submission.stage = "node"
              /\ submission'.stage = "returned"
              /\ submission.method \in SubmittingHandlers)
             => (/\ Len(pendingTxs') = Len(pendingTxs) + 1
                 /\ pendingTxs'[Len(pendingTxs')].state = PendingTxState.Processing)
          /\ (\/ submission.stage # "node"
              \/ submission'.stage = "thrown")
             => pendingTxs' = pendingTxs
          /\ Len(pendingTxs') >= Len(pendingTxs)
          /\ SubSeq(pendingTxs', 1, Len(pendingTxs)) = pendingTxs]_vars

\* `send` has been refused by the node after an earlier submission went
\* through: one entry, the failed call added none.
C25_Witness ==
    /\ submission = [method |-> "send", stage |-> "thrown"]
    /\ Len(pendingTxs) = 1
    /\ Len(trackerLog.added) = 1

\* C26: `exit` at top level ends the process and nothing else: the line is
\* not handed to the dispatcher, no call is started, the session state is
\* left as it was, and no step follows the termination.
C26_ExitTerminatesOnly ==
    [][/\ pc # "exited"
       /\ (pc = "eval" /\ cmd = << "exit" >> /\ ~Truthy(activeContext))
          => (/\ pc' = "exited"
              /\ decision'.outcome = "process_exit"
              /\ pending' = "none"
              /\ activeContext' = activeContext
              /\ isConnected' = isConnected)]_vars

\* Terminated by the first `exit`, no context ever entered.
C26_Witness ==
    /\ pc = "exited"
    /\ cmd = << "exit" >>
    /\ decision.outcome = "process_exit"
    /\ activeContext = Undefined

\* a sequence of names in sorted order, no name twice
StrictlySorted(names) ==
    \A i \in 1..(Len(names) - 1) : StringLess(names[i], names[i + 1])

\* The usage of a declared command as the claim words it, with the prefix
\* printHelp passes; the bare name for a method without a Command Spec.
ExpectedHelpEntry(context, method) ==
    LET declared == handlerMap(context)
    IN  IF method \in DOMAIN declared.commands
        THEN << << "    ", method >> \o RenderedFields(declared.commands[method]),
                << "    ", "- ", declared.descriptions[method] >>,
                << >> >>
        ELSE << << "    ", method >>, << >> >>

\* C27: a printed help has its contexts in sorted order (all registered
\* ones, or the target only), in each context the context's commands in
\* sorted order, each as the usage of its Command Spec or else as the bare
\* name; the registered order of the commands is as it was.
C27_HelpRendering ==
    [][(pc = "eval" /\ decision'.outcome = "help")
       => LET help == decision'.help
              contexts == [i \in 1..Len(help) |-> help[i].context]
          IN  /\ StrictlySorted(contexts)
              /\ \/ Range(contexts) = RegisteredContexts
                 \/ Len(contexts) <= 1
              /\ \A i \in 1..Len(help) :
                    LET context == help[i].context
                        declaredOrder == PublicMembers(handlerMap(context).members)
                    IN  /\ context \in RegisteredContexts
                        /\ StrictlySorted(help[i].methods)
                        /\ Range(help[i].methods) = Range(declaredOrder)
                        /\ Len(help[i].rendered) = Len(help[i].methods)
                        /\ \A j \in 1..Len(help[i].methods) :
                              help[i].rendered[j]
                              = ExpectedHelpEntry(context, help[i].methods[j])
                        /\ help[i].registered = declaredOrder]_vars

\* The full help at top level: five sections, avm's list not in declared
\* order once sorted.
C27_Witness ==
    /\ pc = "done"
    /\ decision.outcome = "help"
    /\ Len(decision.help) = 5
    /\ decision.help[1].context = "avm"
    /\ decision.help[1].methods # decision.help[1].registered
    /\ decision.help[1].rendered[1][1][1] = "    "

\* C28: a line handed to evalHandler that does not end the process is called
\* back exactly once: evaluation leads to the callback directly or through
\* one awaited call, the callback comes only when no awaited call is
\* outstanding, also when that call failed, and after the callback nothing
\* more happens for the line.
C28_CallbackOnce ==
    [][/\ (pc = "eval")
          => (/\ pc' \in {"await", "done", "exited"}
              /\ (pc' = "exited") <=> (cmd = << "exit" >> /\ ~Truthy(activeContext))
              /\ (pc' = "await") <=> (pending' \in {"connect", "handler"}))
       /\ (pc = "await" /\ pending # "startup")
          => (pc' = "done" /\ pending' = "none" /\ cmd' = cmd)
       /\ (pc = "done")
          => (/\ pending = "none"
              /\ pc' = "idle"
              /\ cmd' = << >>
              /\ decision' = NoDecision)
       /\ (pc' = "idle" /\ pc \in {"eval", "await", "done"})
          => (pc = "done" \/ pending = "startup")
       /\ (pc' = "eval") => (pc = "idle")]_vars

\* A handler call has failed and the line is about to be called back.
C28_Witness ==
    /\ pc = "done"
    /\ decision.outcome = "invoke"
    /\ failed
    /\ pending = "none"
    /\ Truthy(activeContext)

\* C29: once the REPL runs the prompt is `ava> ` when no context is active
\* and `ava <ctx>> ` when ctx is active, in particular whenever a line is
\* about to be called back; a change of activeContext and the prompt update
\* come in the same step of evalHandler, before the callback.
C29_PromptConsistent ==
    (pc \in {"idle", "completing", "eval", "done", "exited"}
     \/ (pc = "await" /\ pending # "startup"))
    => prompt = IF activeContext \in {Null, Undefined}
                THEN << "a", "v", "a", ">", " " >>
                ELSE << "a", "v", "a", " " >> \o Chars[activeContext]
                     \o << ">", " " >>

\* `platform` has been entered from another context and the line is about
\* to be called back.
C29_Witness ==
    /\ pc = "done"
    /\ decision.outcome = "enter_context"
    /\ decision.context = "avm"
    /\ activeContext = "platform"
    /\ prompt = Chars["ava"] \o << " " >> \o Chars["platform"] \o << ">", " " >>
====
